---------------------------- MODULE Spec2Model ----------------------------
(***************************************************************************)
(* State-machine model of the voice-memo page (src/pages/Index.tsx): the   *)
(* capture controller (startRecording / stopRecording / MediaRecorder      *)
(* events), the local store (IndexedDB "audioDB", object store             *)
(* "recordings", keyPath id), the upload client (uploadRecording) and the  *)
(* player (playRecording and the one <audio> element).                     *)
(*                                                                         *)
(* One action is one task of the single UI thread: a button press, the     *)
(* continuation of an await, a MediaRecorder event, an IndexedDB request   *)
(* callback.  React re-renders between tasks, so a button handler always   *)
(* sees the state left by the previous task.                               *)
(*                                                                         *)
(* IndexedDB is modelled by what the platform guarantees: open requests on *)
(* one database are served in the order they were made (openQ), and        *)
(* transactions on the one object store run in the order they were created *)
(* (txnQ): a read-only transaction created after a read/write one sees its *)
(* writes.  Any request may fail (quota, I/O, blocked open); add fails     *)
(* when the key exists.                                                    *)
(***************************************************************************)
EXTENDS Integers, Sequences, FiniteSets, Bags, TLC

VARIABLES
    \* ---- React state and refs of the Index component
    isRecording,        \* useState(false)
    recordings,         \* useState([]): the in-memory list, as a map id -> record
    recordingDuration,  \* useState(0)
    isUploading,        \* useState(null): id of the recording being uploaded
    mediaRecorder,      \* useRef(null): 0, or the index of a capture session
    chunks,             \* useRef([]): the shared chunk buffer
    durationInterval,   \* useRef(): 0, or the id of the last interval created
    startTime,          \* useRef(0): Date.now() of the last start
    currentlyPlaying,   \* useState(null): id of the recording marked playing
    \* ---- the platform
    now,                \* the wall clock, in ticks of MsPerTick milliseconds
    pendingGUM,         \* startRecording calls awaiting getUserMedia
    sess,               \* the streams/recorders obtained so far
    timers,             \* the intervals that are scheduled
    fetches,            \* POST requests in flight: a bag of their recordings
    posts,              \* POST requests issued so far
    openQ,              \* indexedDB.open requests not yet answered
    txnQ,               \* transactions created and not yet run
    db,                 \* "none" | "ready" | "nostore"
    store,              \* the object store "recordings": id -> record
    toasts,             \* notifications issued, counted by kind
    audio,              \* the <audio> element: its source and whether it plays
    \* ---- history, read by the properties only
    overlap,            \* a start was pressed while another awaited getUserMedia
    deletedIds,         \* identifiers a delete request has removed
    failures,           \* storage requests that failed for an external reason
    rejected,           \* add requests rejected because the key existed
    refreshDebt,        \* 0 when the refresh issued last has delivered its
                        \* result (or none has failed); otherwise it failed
                        \* and refreshDebt - 1 older ones are still to run
    notified,           \* id -> text of the response that the latest
                        \* success notification for that recording reported
    nStarts,            \* start presses
    nDeletes,           \* delete presses
    nPlays,             \* play presses
    cutIn               \* a play press started a recording while the element
                        \* was playing another one

vars == <<isRecording, recordings, recordingDuration, isUploading, mediaRecorder,
          chunks, durationInterval, startTime, now, pendingGUM, sess, timers,
          fetches, posts, openQ, txnQ, db, store, toasts, overlap, deletedIds,
          failures, rejected, refreshDebt, nStarts, nDeletes,
          currentlyPlaying, audio, nPlays, cutIn, notified>>

-----------------------------------------------------------------------------
\* Bounds of the model
MaxStarts   == 2   \* start presses
MaxUploads  == 2   \* upload presses
MaxDeletes  == 1   \* delete presses
MaxFailures == 1   \* storage requests that fail for an external reason
MaxTime     == 1   \* clock ticks
MaxChunks   == 1   \* timeslice chunks buffered before a stop
MaxPlays    == 2   \* play presses
MaxPresses  == 3   \* presses of the start, upload, delete and play buttons

\* Program and platform constants
MsPerSecond == 1000  \* the divisor of the duration computation
MsPerTick   == MsPerSecond   \* one clock tick of the model, in milliseconds
NoRecorder  == 0     \* mediaRecorder.current = null, durationInterval unset

NULL      == "null"        \* isUploading = null
Undefined == "undefined"   \* a record without a transcription
Texts     == {"t1", "t2"}  \* the text field of a response

ToastKinds == {"storage", "microphone", "deleted", "uploaded", "uploadFailed"}

-----------------------------------------------------------------------------
\* Helpers

Toast(kind) == [toasts EXCEPT ![kind] = @ + 1]

\* Date.now(): every call made within one tick of the clock returns the same
\* value
DateNow == now * MsPerTick

\* the record the store holds under a key after add/put
WithRecord(s, rec) ==
    [i \in DOMAIN s \cup {rec.id} |-> IF i = rec.id THEN rec ELSE s[i]]

WithoutKey(s, id) == [i \in DOMAIN s \ {id} |-> s[i]]

NoRec == [id |-> NULL, blob |-> <<>>, duration |-> 0, timestamp |-> 0,
          transcription |-> Undefined]

OpenReq(kind, rec) == [kind |-> kind, rec |-> rec]
Txn(op, rec)       == [op |-> op, rec |-> rec]

ChunkSizes == {0, 1}       \* e.data.size: an empty or a non-empty chunk

Session(rstate, t) ==
    [rstate |-> rstate, live |-> TRUE, stopEvt |-> FALSE, done |-> FALSE,
     startedAt |-> t, stoppedAt |-> 0, rec |-> NoRec]

Active(i) == sess[i].rstate = "recording"

ActiveRecorders == {i \in 1..Len(sess) : Active(i)}

Presses == nStarts + posts + nDeletes + nPlays

Quiescent == openQ = <<>> /\ txnQ = <<>>

\* the <audio> element before any source was set
Silent == [src |-> NULL, playing |-> FALSE]

-----------------------------------------------------------------------------
\* The page has just been mounted on a first visit: the database does not
\* exist yet and the mount effect has asked to open it.
Init ==
    /\ isRecording = FALSE
    /\ recordings = <<>>
    /\ recordingDuration = 0
    /\ isUploading = NULL
    /\ mediaRecorder = NoRecorder
    /\ chunks = <<>>
    /\ durationInterval = NoRecorder
    /\ startTime = 0
    /\ now = 1
    /\ pendingGUM = 0
    /\ sess = <<>>
    /\ timers = {}
    /\ fetches = EmptyBag
    /\ posts = 0
    /\ openQ = <<OpenReq("init", NoRec)>>   \* the mount effect's open request
    /\ txnQ = <<>>
    /\ db = "none"
    /\ store = <<>>
    /\ toasts = [k \in ToastKinds |-> 0]
    /\ overlap = FALSE
    /\ deletedIds = {}
    /\ failures = 0
    /\ rejected = 0
    /\ refreshDebt = 0
    /\ nStarts = 0
    /\ nDeletes = 0
    /\ currentlyPlaying = NULL
    /\ audio = Silent
    /\ nPlays = 0
    /\ cutIn = FALSE
    /\ notified = <<>>

\* a record saved by an earlier visit, k ticks before this one began
Earlier(k) ==
    [id |-> ToString((1 - k) * MsPerTick), blob |-> <<0>>, duration |-> 0,
     timestamp |-> (1 - k) * MsPerTick, transcription |-> Undefined]

\* The page has just been mounted on a later visit: the database exists and
\* holds a recording of an earlier visit.
InitReturn ==
    /\ isRecording = FALSE
    /\ recordings = <<>>
    /\ recordingDuration = 0
    /\ isUploading = NULL
    /\ mediaRecorder = NoRecorder
    /\ chunks = <<>>
    /\ durationInterval = NoRecorder
    /\ startTime = 0
    /\ now = 1
    /\ pendingGUM = 0
    /\ sess = <<>>
    /\ timers = {}
    /\ fetches = EmptyBag
    /\ posts = 0
    /\ openQ = <<OpenReq("init", NoRec)>>
    /\ txnQ = <<>>
    /\ db = "ready"
    /\ store = WithRecord(<<>>, Earlier(1))
    /\ toasts = [k \in ToastKinds |-> 0]
    /\ overlap = FALSE
    /\ deletedIds = {}
    /\ failures = 0
    /\ rejected = 0
    /\ refreshDebt = 0
    /\ nStarts = 0
    /\ nDeletes = 0
    /\ currentlyPlaying = NULL
    /\ audio = Silent
    /\ nPlays = 0
    /\ cutIn = FALSE
    /\ notified = <<>>

captureVars == <<isRecording, recordingDuration, mediaRecorder, chunks,
                 durationInterval, startTime, pendingGUM, sess, timers,
                 overlap, nStarts>>
uploadVars  == <<isUploading, fetches, posts, notified>>
playVars    == <<currentlyPlaying, audio, nPlays, cutIn>>
storeVars   == <<openQ, txnQ, db, store, recordings, deletedIds, failures,
                 rejected, refreshDebt, nDeletes>>

\* the read-only transactions created and not yet run
PendingReads == Cardinality({k \in 1..Len(txnQ) : txnQ[k].op = "getAll"})

-----------------------------------------------------------------------------
\* The capture controller

\* startRecording, up to its await: the call is made and getUserMedia is pending.
startRecording ==
    /\ pendingGUM' = pendingGUM + 1
    /\ overlap' = (overlap \/ pendingGUM > 0)
    /\ nStarts' = nStarts + 1
    /\ UNCHANGED <<isRecording, recordingDuration, mediaRecorder, chunks,
                   durationInterval, startTime, sess, timers>>

\* stopRecording without mediaRecorder.current.stop(): the flag and the
\* interval are reset, the recorder keeps recording.
stopRecordingKeepsRecorder ==
    /\ IF mediaRecorder # NoRecorder /\ sess[mediaRecorder].rstate # "inactive"
       THEN /\ timers' = timers \ {durationInterval}
            /\ isRecording' = FALSE
       ELSE UNCHANGED <<timers, isRecording>>
    /\ UNCHANGED <<sess, recordingDuration, mediaRecorder, chunks,
                   durationInterval, startTime, pendingGUM, overlap, nStarts>>

\* stopRecording: acts only on mediaRecorder.current, and only when it is not
\* inactive.  stop() makes the recorder inactive at once and queues its stop
\* event; the tracks of its stream are stopped; the last interval is cleared.
stopRecording ==
    /\ IF mediaRecorder # NoRecorder /\ sess[mediaRecorder].rstate # "inactive"
       THEN /\ sess' = [sess EXCEPT ![mediaRecorder] =
                           [@ EXCEPT !.rstate = "inactive", !.stopEvt = TRUE,
                                     !.live = FALSE]]
            /\ timers' = timers \ {durationInterval}
            /\ isRecording' = FALSE
       ELSE UNCHANGED <<sess, timers, isRecording>>
    /\ UNCHANGED <<recordingDuration, mediaRecorder, chunks, durationInterval,
                   startTime, pendingGUM, overlap, nStarts>>

\* The record button: onClick={isRecording ? stopRecording : startRecording}
PressStart ==
    /\ ~isRecording
    /\ nStarts < MaxStarts
    /\ Presses < MaxPresses
    /\ startRecording
    /\ UNCHANGED <<now, playVars, toasts, uploadVars, storeVars>>

PressStop ==
    /\ isRecording
    /\ stopRecording
    /\ UNCHANGED <<now, playVars, toasts, uploadVars, storeVars>>

\* getUserMedia resolved and the recorder was built and started
\* (the rest of the try block).
startRecordingGranted ==
    /\ pendingGUM > 0
    /\ pendingGUM' = pendingGUM - 1
    /\ sess' = Append(sess, Session("recording", DateNow))
    /\ mediaRecorder' = Len(sess) + 1
    /\ startTime' = DateNow
    /\ isRecording' = TRUE
    /\ recordingDuration' = 0
    /\ timers' = timers \cup {Len(sess) + 1}
    /\ durationInterval' = Len(sess) + 1
    /\ UNCHANGED <<chunks, overlap, nStarts>>
    /\ UNCHANGED <<now, playVars, toasts, uploadVars, storeVars>>

\* a catch block that also marks the page as recording
startRecordingDeniedSetsFlag ==
    /\ pendingGUM > 0
    /\ pendingGUM' = pendingGUM - 1
    /\ toasts' = Toast("microphone")
    /\ isRecording' = TRUE
    /\ UNCHANGED <<recordingDuration, mediaRecorder, chunks, durationInterval,
                   startTime, sess, timers, overlap, nStarts>>
    /\ UNCHANGED <<now, playVars, uploadVars, storeVars>>

\* getUserMedia rejected (permission denied, no device): the catch block.
startRecordingDenied ==
    /\ pendingGUM > 0
    /\ pendingGUM' = pendingGUM - 1
    /\ toasts' = Toast("microphone")
    /\ UNCHANGED <<isRecording, recordingDuration, mediaRecorder, chunks,
                   durationInterval, startTime, sess, timers, overlap, nStarts>>
    /\ UNCHANGED <<now, playVars, uploadVars, storeVars>>

\* getUserMedia resolved but new MediaRecorder(stream, {mimeType}) threw
\* (neither webm type is supported): the catch block, with the stream obtained.
startRecordingUnsupported ==
    /\ pendingGUM > 0
    /\ pendingGUM' = pendingGUM - 1
    /\ sess' = Append(sess, Session("none", DateNow))
    /\ toasts' = Toast("microphone")
    /\ UNCHANGED <<isRecording, recordingDuration, mediaRecorder, chunks,
                   durationInterval, startTime, timers, overlap, nStarts>>
    /\ UNCHANGED <<now, playVars, uploadVars, storeVars>>

\* ondataavailable: a timeslice chunk of an active recorder, or the last
\* chunk of a stopped one, delivered before its stop event.
ondataavailable(i, size) ==
    /\ Active(i) \/ sess[i].stopEvt
    /\ Len(chunks) < MaxChunks
    /\ chunks' = IF size > 0 THEN Append(chunks, i) ELSE chunks
    /\ UNCHANGED <<isRecording, recordingDuration, mediaRecorder,
                   durationInterval, startTime, pendingGUM, sess, timers,
                   overlap, nStarts>>
    /\ UNCHANGED <<now, playVars, toasts, uploadVars, storeVars>>

\* The tracks of a stream end by themselves (device unplugged, permission
\* revoked): a recorder on it becomes inactive and queues its stop event.
TrackEnded(i) ==
    /\ sess[i].live
    /\ sess' = [sess EXCEPT ![i] =
                   IF @.rstate = "recording"
                   THEN [@ EXCEPT !.rstate = "inactive", !.stopEvt = TRUE,
                                  !.live = FALSE]
                   ELSE [@ EXCEPT !.live = FALSE]]
    /\ UNCHANGED <<isRecording, recordingDuration, mediaRecorder, chunks,
                   durationInterval, startTime, pendingGUM, timers, overlap,
                   nStarts>>
    /\ UNCHANGED <<now, playVars, toasts, uploadVars, storeVars>>

\* the record built by onstop
NewRecording(blob) ==
    [id |-> ToString(DateNow), blob |-> blob,
     duration |-> (DateNow - startTime) \div MsPerSecond,
     timestamp |-> DateNow, transcription |-> Undefined]

\* The stop event of recorder i: onstop builds the record from the chunk
\* buffer, asks to open the database for the save, empties the buffer and
\* resets the displayed duration.
onstop(i) ==
    /\ sess[i].stopEvt
    /\ LET recording == NewRecording(chunks)
       IN  /\ openQ' = Append(openQ, OpenReq("add", recording))
           /\ sess' = [sess EXCEPT ![i] =
                          [@ EXCEPT !.stopEvt = FALSE, !.done = TRUE,
                                    !.stoppedAt = DateNow, !.rec = recording]]
    /\ chunks' = <<>>
    /\ recordingDuration' = 0
    /\ UNCHANGED <<isRecording, mediaRecorder, durationInterval, startTime,
                   pendingGUM, timers, overlap, nStarts>>
    /\ UNCHANGED <<now, playVars, toasts, uploadVars, txnQ, db, store, recordings,
                   deletedIds, failures, rejected, refreshDebt, nDeletes>>

\* The interval callback of the duration counter.
durationTick(t) ==
    /\ t \in timers
    /\ recordingDuration' = (DateNow - startTime) \div MsPerSecond
    /\ UNCHANGED <<isRecording, mediaRecorder, chunks, durationInterval,
                   startTime, pendingGUM, sess, timers, overlap, nStarts>>
    /\ UNCHANGED <<now, playVars, toasts, uploadVars, storeVars>>

\* Time passes.
Tick ==
    /\ now <= MaxTime
    /\ now' = now + 1
    /\ UNCHANGED <<toasts, playVars, captureVars, uploadVars, storeVars>>

-----------------------------------------------------------------------------
\* The local store

\* what a request's onsuccess callback does: the transaction it creates, the
\* open requests it makes, the notification it issues
Effect(txn, open, toast) == [txn |-> txn, open |-> open, toast |-> toast]

\* loadRecordings(): one more indexedDB.open, whose callback reads the store
loadRecordings == <<OpenReq("load", NoRec)>>

\* request.onsuccess of the mount effect
initSuccess == Effect(<<>>, loadRecordings, "none")

\* request.onsuccess of loadRecordings: a read-only transaction with getAll
loadSuccess == Effect(<<Txn("getAll", NoRec)>>, <<>>, "none")

\* onstop's callback with store.put in place of store.add
saveSuccessPut(rec) == Effect(<<Txn("put", rec)>>, loadRecordings, "none")

\* onstop's callback without store.add
saveSuccessNoAdd(rec) == Effect(<<>>, loadRecordings, "none")

\* request.onsuccess of onstop: store.add(recording); loadRecordings()
saveSuccess(rec) == Effect(<<Txn("add", rec)>>, loadRecordings, "none")

\* request.onsuccess of deleteRecording: store.delete(id); loadRecordings();
\* toast "Recording deleted"
deleteSuccess(rec) == Effect(<<Txn("delete", rec)>>, loadRecordings, "deleted")

\* uploadRecording's callback without loadRecordings()
putSuccessNoRefresh(rec) == Effect(<<Txn("put", rec)>>, <<>>, "none")

\* request.onsuccess of uploadRecording: store.put(updatedRecording);
\* loadRecordings()
putSuccess(rec) == Effect(<<Txn("put", rec)>>, loadRecordings, "none")

OnOpenSuccess(req) ==
    CASE req.kind = "init"   -> initSuccess
      [] req.kind = "load"   -> loadSuccess
      [] req.kind = "add"    -> saveSuccess(req.rec)
      [] req.kind = "delete" -> deleteSuccess(req.rec)
      [] req.kind = "put"    -> putSuccess(req.rec)

\* request.onupgradeneeded exists on the mount effect's request only: a
\* database first created by any other request has no object store.
Upgraded(req) ==
    IF db = "none"
    THEN IF req.kind = "init" THEN "ready" ELSE "nostore"
    ELSE db

\* The oldest open request succeeds and its onsuccess runs.  Without the
\* object store db.transaction throws and the rest of the callback is skipped.
OpenSucceeds ==
    /\ openQ # <<>>
    /\ LET req == Head(openQ)
           eff == OnOpenSuccess(req)
       IN  /\ db' = Upgraded(req)
           /\ IF Upgraded(req) = "ready" \/ req.kind = "init"
              THEN /\ txnQ' = txnQ \o eff.txn
                   /\ openQ' = Tail(openQ) \o eff.open
                   /\ toasts' = IF eff.toast = "none" THEN toasts
                                                       ELSE Toast(eff.toast)
                   /\ refreshDebt' = refreshDebt
              ELSE /\ txnQ' = txnQ
                   /\ openQ' = Tail(openQ)
                   /\ toasts' = toasts
                   /\ refreshDebt' = IF req.kind = "load" THEN 1 + PendingReads
                                                           ELSE refreshDebt
    /\ UNCHANGED <<store, recordings, deletedIds, failures, rejected, nDeletes>>
    /\ UNCHANGED <<now, playVars, captureVars, uploadVars>>

\* The oldest open request fails.  Only the mount effect's request has an
\* onerror handler.
OpenFails ==
    /\ openQ # <<>>
    /\ failures < MaxFailures
    /\ failures' = failures + 1
    /\ openQ' = Tail(openQ)
    /\ toasts' = IF Head(openQ).kind = "init" THEN Toast("storage") ELSE toasts
    /\ refreshDebt' = IF Head(openQ).kind = "load" THEN 1 + PendingReads
                                                   ELSE refreshDebt
    /\ UNCHANGED <<txnQ, db, store, recordings, deletedIds, rejected, nDeletes>>
    /\ UNCHANGED <<now, playVars, captureVars, uploadVars>>

\* The oldest transaction runs its request and commits.  No request of the
\* page has an onerror handler; getAll's onsuccess is setRecordings(result).
TxnRuns ==
    /\ txnQ # <<>>
    /\ txnQ' = Tail(txnQ)
    /\ LET t == Head(txnQ) IN
       CASE t.op = "add" ->
              /\ IF t.rec.id \in DOMAIN store
                 THEN rejected' = rejected + 1 /\ store' = store
                 ELSE rejected' = rejected /\ store' = WithRecord(store, t.rec)
              /\ UNCHANGED <<recordings, deletedIds, refreshDebt>>
         [] t.op = "put" ->
              /\ store' = WithRecord(store, t.rec)
              /\ UNCHANGED <<recordings, deletedIds, rejected, refreshDebt>>
         [] t.op = "delete" ->
              /\ store' = WithoutKey(store, t.rec.id)
              /\ deletedIds' = IF t.rec.id \in DOMAIN store
                               THEN deletedIds \cup {t.rec.id} ELSE deletedIds
              /\ UNCHANGED <<recordings, rejected, refreshDebt>>
         [] t.op = "getAll" ->
              /\ recordings' = store
              /\ refreshDebt' = IF refreshDebt > 1 THEN refreshDebt - 1 ELSE 0
              /\ UNCHANGED <<store, deletedIds, rejected>>
    /\ UNCHANGED <<openQ, db, failures, nDeletes>>
    /\ UNCHANGED <<now, playVars, toasts, captureVars, uploadVars>>

\* The oldest transaction's request fails and the transaction aborts.
TxnFails ==
    /\ txnQ # <<>>
    /\ failures < MaxFailures
    /\ failures' = failures + 1
    /\ txnQ' = Tail(txnQ)
    /\ refreshDebt' = IF Head(txnQ).op = "getAll"
                      THEN (IF refreshDebt > 1 THEN refreshDebt - 1 ELSE 1)
                      ELSE refreshDebt
    /\ UNCHANGED <<openQ, db, store, recordings, deletedIds, rejected, nDeletes>>
    /\ UNCHANGED <<now, playVars, toasts, captureVars, uploadVars>>

\* deleteRecording(id), from the delete button of a listed recording
deleteRecording(id) ==
    /\ openQ' = Append(openQ, OpenReq("delete", [NoRec EXCEPT !.id = id]))
    /\ UNCHANGED <<txnQ, db, store, recordings, deletedIds, failures, rejected,
                   refreshDebt>>

PressDelete(id) ==
    /\ id \in DOMAIN recordings
    /\ nDeletes < MaxDeletes
    /\ Presses < MaxPresses
    /\ nDeletes' = nDeletes + 1
    /\ deleteRecording(id)
    /\ UNCHANGED <<now, playVars, toasts, captureVars, uploadVars>>

-----------------------------------------------------------------------------
\* The upload client

\* an updated record built without spreading the recording
updatedRecordingNoSpread(recording, text) ==
    [NoRec EXCEPT !.id = recording.id, !.transcription = text]

\* const updatedRecording = { ...recording, transcription: data.text }
updatedRecording(recording, text) ==
    [recording EXCEPT !.transcription = text]

\* uploadRecording(recording), up to its await: the indicator is set and one
\* POST is sent.
uploadRecording(recording) ==
    /\ isUploading' = recording.id
    /\ fetches' = fetches (+) SetToBag({recording})
    /\ posts' = posts + 1
    /\ UNCHANGED notified

\* The upload button of a listed recording, disabled while
\* isUploading === recording.id
PressUpload(id) ==
    /\ id \in DOMAIN recordings
    /\ isUploading # id
    /\ posts < MaxUploads
    /\ Presses < MaxPresses
    /\ uploadRecording(recordings[id])
    /\ UNCHANGED <<now, playVars, toasts, captureVars, storeVars>>

\* The texts a response may carry.  Texts are interchangeable, so the first
\* successful response is taken to carry "t1"; later ones carry any text.
ResponseTexts == IF toasts["uploaded"] = 0 THEN {"t1"} ELSE Texts

\* A request in flight, sent for recording, got an OK response with a JSON
\* body: the try block's rest, then finally.
uploadResponded(recording, text) ==
    /\ openQ' = Append(openQ, OpenReq("put", updatedRecording(recording, text)))
    /\ toasts' = Toast("uploaded")
    /\ notified' = [i \in DOMAIN notified \cup {recording.id} |->
                       IF i = recording.id THEN text ELSE notified[i]]
    /\ isUploading' = NULL
    /\ fetches' = fetches (-) SetToBag({recording})
    /\ UNCHANGED <<posts, txnQ, db, store, recordings, deletedIds, failures,
                   rejected, refreshDebt, nDeletes>>
    /\ UNCHANGED <<now, playVars, captureVars>>

\* uploadRecording without its finally block
uploadFailedNoFinally(recording) ==
    /\ toasts' = Toast("uploadFailed")
    /\ fetches' = fetches (-) SetToBag({recording})
    /\ UNCHANGED <<isUploading, posts, notified>>
    /\ UNCHANGED <<now, playVars, captureVars, storeVars>>

\* A request in flight failed (network error, non-OK status, a body that is
\* not JSON): catch, then finally.
uploadFailed(recording) ==
    /\ toasts' = Toast("uploadFailed")
    /\ isUploading' = NULL
    /\ fetches' = fetches (-) SetToBag({recording})
    /\ UNCHANGED <<posts, notified>>
    /\ UNCHANGED <<now, playVars, captureVars, storeVars>>

-----------------------------------------------------------------------------
\* The player

\* audio.play() starts playback when the element can decode the blob; a
\* recording finalized from an empty chunk buffer has a blob of zero bytes,
\* for which play() rejects and nothing is played.
Playable(recording) == recording.blob # <<>>

\* playRecording that gives the element a blob only when it has none
playRecordingKeepsSource(recording) ==
    IF currentlyPlaying = recording.id
    THEN /\ audio' = [audio EXCEPT !.playing = FALSE]
         /\ currentlyPlaying' = NULL
    ELSE /\ audio' = IF audio.src = NULL
                     THEN [src |-> recording.id, playing |-> Playable(recording)]
                     ELSE [audio EXCEPT !.playing = TRUE]
         /\ currentlyPlaying' = recording.id

\* playRecording(recording): pause when the recording is the one marked
\* playing; otherwise give the element the recording's blob (which ends
\* whatever it was playing), call play() and mark the recording.
playRecording(recording) ==
    IF currentlyPlaying = recording.id
    THEN /\ audio' = [audio EXCEPT !.playing = FALSE]
         /\ currentlyPlaying' = NULL
    ELSE /\ audio' = [src |-> recording.id, playing |-> Playable(recording)]
         /\ currentlyPlaying' = recording.id

\* The play button of a listed recording.
PressPlay(id) ==
    /\ id \in DOMAIN recordings
    /\ nPlays < MaxPlays
    /\ Presses < MaxPresses
    /\ nPlays' = nPlays + 1
    /\ cutIn' = (cutIn \/ (audio.playing /\ audio.src # id))
    /\ playRecording(recordings[id])
    /\ UNCHANGED <<now, toasts, captureVars, uploadVars, storeVars>>

\* Playback reached the end of the blob: the element's onended handler.
onended ==
    /\ audio.playing
    /\ audio' = [audio EXCEPT !.playing = FALSE]
    /\ currentlyPlaying' = NULL
    /\ UNCHANGED <<now, toasts, nPlays, cutIn, captureVars, uploadVars,
                   storeVars>>

-----------------------------------------------------------------------------
Next ==
    \/ PressStart
    \/ PressStop
    \/ startRecordingGranted
    \/ startRecordingDenied
    \/ startRecordingUnsupported
    \/ \E i \in 1..Len(sess), size \in ChunkSizes : ondataavailable(i, size)
    \/ \E i \in 1..Len(sess) : TrackEnded(i)
    \/ \E i \in 1..Len(sess) : onstop(i)
    \/ \E t \in timers : durationTick(t)
    \/ Tick
    \/ OpenSucceeds
    \/ OpenFails
    \/ TxnRuns
    \/ TxnFails
    \/ \E id \in DOMAIN recordings : PressDelete(id)
    \/ \E id \in DOMAIN recordings : PressUpload(id)
    \/ \E r \in BagToSet(fetches), text \in ResponseTexts : uploadResponded(r, text)
    \/ \E r \in BagToSet(fetches) : uploadFailed(r)
    \/ \E id \in DOMAIN recordings : PressPlay(id)
    \/ onended

Spec == Init /\ [][Next]_vars

\* the same page on a later visit
SpecReturn == InitReturn /\ [][Next]_vars

-----------------------------------------------------------------------------
\* Properties

Done == {i \in 1..Len(sess) : sess[i].done}

Recorders == {i \in 1..Len(sess) : sess[i].rstate # "none"}

\* the record rec is the one stored under its identifier, whatever
\* transcription the stored one has received
Stored(rec) ==
    /\ rec.id \in DOMAIN store
    /\ store[rec.id].blob = rec.blob
    /\ store[rec.id].duration = rec.duration
    /\ store[rec.id].timestamp = rec.timestamp

\* C1 as stated: in every reachable state at most one MediaRecorder is in a
\* non-inactive state.
C1_AtMostOneRecorder == Cardinality(ActiveRecorders) <= 1

\* C1 amended: as long as the start button was never pressed while an earlier
\* startRecording call was still awaiting getUserMedia, at most one
\* MediaRecorder is in a non-inactive state.
C1_OneRecorderWithoutOverlap == ~overlap => Cardinality(ActiveRecorders) <= 1

\* a second capture session is recording after the first one was stopped
C1_Witness ==
    /\ ~overlap
    /\ Len(sess) = 2
    /\ sess[1].rstate = "inactive"
    /\ Active(2)

\* C2: once a delete request has removed a recording, no record with that
\* identifier is in the local store again.
C2_DeletedStaysDeleted == \A id \in deletedIds : id \notin DOMAIN store

C4_ListEqualsStore == Quiescent => recordings = store

\* C4 amended: once all pending storage callbacks have run, the in-memory
\* list equals the records of the local store, provided the open and get-all
\* requests of the latest refresh succeeded (a failed refresh is not retried
\* and leaves the list as it was).
C4_ListEqualsStoreAfterRefresh ==
    (Quiescent /\ refreshDebt = 0) => recordings = store

\* the list shows a transcription that an upload response has stored
C4_Witness ==
    /\ Quiescent /\ refreshDebt = 0
    /\ \E id \in DOMAIN store : store[id].transcription \in Texts
    /\ recordings = store

\* C5: the put issued by a successful response for recording r with text t
\* writes r with transcription t, and when it is applied while r is stored,
\* the record keeps its identifier, audio payload, duration and timestamp,
\* has transcription t, and every other stored record is unchanged.
C5_ResponseMutatesOnlyTranscription ==
    /\ [][\A r \in BagToSet(fetches), t \in Texts :
            uploadResponded(r, t) =>
                LET u == openQ'[Len(openQ')].rec IN
                /\ openQ'[Len(openQ')].kind = "put"
                /\ u.id = r.id /\ u.blob = r.blob /\ u.duration = r.duration
                /\ u.timestamp = r.timestamp /\ u.transcription = t]_vars
    /\ [][(txnQ # <<>> /\ Head(txnQ).op = "put" /\ Stored(Head(txnQ).rec)
             /\ TxnRuns) =>
                LET u == Head(txnQ).rec IN
                /\ DOMAIN store' = DOMAIN store
                /\ store'[u.id].transcription = u.transcription
                /\ store'[u.id].id = store[u.id].id
                /\ store'[u.id].blob = store[u.id].blob
                /\ store'[u.id].duration = store[u.id].duration
                /\ store'[u.id].timestamp = store[u.id].timestamp
                /\ \A id \in DOMAIN store \ {u.id} : store'[id] = store[id]]_vars

\* one of two stored records has received a transcription
C5_Witness ==
    /\ Cardinality(DOMAIN store) = 2
    /\ \E id \in DOMAIN store :
          /\ store[id].transcription \in Texts
          /\ store[id].blob # <<>>
          /\ \A other \in DOMAIN store \ {id} :
                store[other].transcription = Undefined

\* the put requests on their way to the store
PutsQueued ==
    Cardinality({k \in 1..Len(openQ) : openQ[k].kind = "put"})
        + Cardinality({k \in 1..Len(txnQ) : txnQ[k].op = "put"})

\* C6 as stated: once a stored record has received a transcription, no later
\* step changes that record while it is stored.
C6_MutatedAtMostOnce ==
    [][\A id \in DOMAIN store \cap DOMAIN store' :
          store[id].transcription # Undefined => store'[id] = store[id]]_vars

\* C6 amended: a stored record is changed only by the put that a successful
\* upload response issues (one put per response, carrying the response's
\* text); it can be changed again by a later upload of the same recording.
C6_MutatedOnlyByUploadPut ==
    /\ [][\A id \in DOMAIN store \cap DOMAIN store' :
            store'[id] # store[id] =>
                /\ txnQ # <<>>
                /\ Head(txnQ).op = "put"
                /\ txnQ' = Tail(txnQ)
                /\ store'[id] = Head(txnQ).rec
                /\ store'[id].transcription \in Texts]_vars
    /\ [][PutsQueued' > PutsQueued =>
            /\ PutsQueued' = PutsQueued + 1
            /\ toasts'["uploaded"] = toasts["uploaded"] + 1]_vars

\* the only recording was uploaded twice and holds the second response's text
C6_Witness ==
    /\ Len(sess) = 1
    /\ toasts["uploaded"] = 2
    /\ \E id \in DOMAIN store : store[id].transcription = "t2"

\* C7: every storage request that failed has been answered by an error
\* notification.
C7_StorageFailuresSurfaced == failures + rejected <= toasts["storage"]

\* C8: a failed upload issues exactly one error notification, sends no new
\* request, leaves the store and every pending storage request unchanged and
\* resets the uploading indicator to null; an upload press sends exactly one
\* POST.
C8_UploadFailureSurfacedOnce ==
    /\ [][\A r \in BagToSet(fetches) :
            uploadFailed(r) =>
                /\ toasts' = [toasts EXCEPT !["uploadFailed"] = @ + 1]
                /\ posts' = posts
                /\ BagCardinality(fetches') = BagCardinality(fetches) - 1
                /\ store' = store /\ openQ' = openQ /\ txnQ' = txnQ
                /\ isUploading' = NULL]_vars
    /\ [][posts' # posts =>
            /\ posts' = posts + 1
            /\ BagCardinality(fetches') = BagCardinality(fetches) + 1
            /\ \E id \in DOMAIN recordings : PressUpload(id)]_vars

\* an upload has failed: the indicator is null and the record is as it was
C8_Witness ==
    /\ toasts["uploadFailed"] = 1
    /\ toasts["uploaded"] = 0
    /\ fetches = EmptyBag
    /\ isUploading = NULL
    /\ \E id \in DOMAIN store : store[id].transcription = Undefined

\* C9: a denied start issues one error notification and starts nothing: the
\* flag, the timers, the chunk buffer, the recorders and the storage requests
\* are unchanged (the flag is false unless an overlapping start had set it),
\* every start attempt has either a recorder or an error notification, and
\* every stored record comes from the stop event of a recorder.
C9_DeniedStartsNothing ==
    /\ [][startRecordingDenied =>
            /\ toasts' = [toasts EXCEPT !["microphone"] = @ + 1]
            /\ isRecording' = isRecording
            /\ (~overlap => ~isRecording')
            /\ UNCHANGED <<timers, chunks, sess, mediaRecorder, durationInterval,
                           openQ, txnQ, store>>]_vars
    /\ [](Cardinality(Recorders) + pendingGUM + toasts["microphone"] = nStarts)
    /\ [](\A id \in DOMAIN store : \E i \in Done : sess[i].rec.id = id)

\* a start was denied and nothing is recording
C9_Witness ==
    /\ toasts["microphone"] = 1
    /\ nStarts = 1
    /\ pendingGUM = 0
    /\ sess = <<>>
    /\ ~isRecording
    /\ timers = {}

\* C10: the duration of the record produced by a capture session is the
\* number of whole seconds between the session's start and its stop event.
C10_DurationIsSessionLength ==
    \A i \in Done :
        Stored(sess[i].rec) =>
            sess[i].rec.duration =
                (sess[i].stoppedAt - sess[i].startedAt) \div MsPerSecond

\* the listed recordings the page marks as playing
Marked == {id \in DOMAIN recordings : currentlyPlaying = id}

\* C11: the one audio element plays at most one recording and at most one
\* listed recording is marked playing; a play press on recording B while
\* another recording A is playing ends A's playback, makes B the element's
\* source and leaves B the only recording marked playing.
C11_OnePlaybackSession ==
    /\ [](Cardinality(Marked) <= 1)
    /\ [](audio.playing => audio.src # NULL)
    /\ [][\A b \in DOMAIN recordings :
            (audio.playing /\ audio.src # b /\ PressPlay(b)) =>
                /\ audio'.src = b
                /\ currentlyPlaying' = b
                /\ {id \in DOMAIN recordings' : currentlyPlaying' = id} = {b}]_vars

\* the second of two listed recordings was started while the first was
\* playing, and is the one playing and marked
C11_Witness ==
    /\ cutIn
    /\ Cardinality(DOMAIN recordings) = 2
    /\ audio.playing
    /\ Marked = {audio.src}

\* the capture sessions that are recording or whose stop event is still to
\* be handled
Unfinished == {i \in 1..Len(sess) : Active(i) \/ sess[i].stopEvt}

\* C12: the audio payload of the record finalized for a capture session
\* holds chunks of that session only, and the shared chunk buffer is empty
\* whenever no capture session is recording or awaiting its stop event.
C12_PayloadIsOwnChunks ==
    /\ \A i \in Done :
          \A k \in 1..Len(sess[i].rec.blob) : sess[i].rec.blob[k] = i
    /\ (Unfinished = {} => chunks = <<>>)

\* C13: while an upload of a recording is in flight the uploading indicator
\* equals that recording's identifier, and the indicator is null only when
\* no upload is in flight.
C13_IndicatorTracksUploads ==
    /\ \A r \in BagToSet(fetches) : isUploading = r.id
    /\ (isUploading = NULL => fetches = EmptyBag)

\* no recorder has a stop event that its handler has still to answer
StopsHandled == \A i \in 1..Len(sess) : ~sess[i].stopEvt

\* C14: once the stop events raised so far have been handled, the
\* isRecording flag is true exactly when a MediaRecorder is in a non-inactive
\* state; a duration interval is scheduled only while the flag is true; and
\* the displayed duration is 0 once a session has been finalized, the flag
\* is false and nothing is recording.
C14_FlagAgreesWithCapture ==
    /\ (StopsHandled => (isRecording <=> ActiveRecorders # {}))
    /\ (timers # {} => isRecording)
    /\ ((~isRecording /\ Done # {} /\ Unfinished = {}) => recordingDuration = 0)

\* the streams obtained from getUserMedia that still have a live track
LiveStreams == {i \in 1..Len(sess) : sess[i].live}

\* C15: whenever isRecording is false and no startRecording call is awaiting
\* getUserMedia, no stream obtained from getUserMedia has a live track.
C15_StreamsReleased ==
    (~isRecording /\ pendingGUM = 0) => LiveStreams = {}

\* C16: once the pending storage callbacks have run, the stored record of
\* every recording for which a success notification was issued carries the
\* text of the response that the latest such notification reported.
C16_SuccessMeansPersisted ==
    Quiescent =>
        \A id \in DOMAIN notified \cap DOMAIN store :
            store[id].transcription = notified[id]

\* C17: currentlyPlaying names a recording only while the audio element is
\* playing that recording; in every state where the element is not playing,
\* currentlyPlaying is null.
C17_MarkedOnlyWhilePlaying ==
    currentlyPlaying # NULL =>
        (audio.playing /\ audio.src = currentlyPlaying)

=============================================================================
